---- MODULE Spec2Model ----
(***************************************************************************)
(* Model of pkg/nuclide-adb-sdb-rpc/lib/Adb.js: the table parser           *)
(* parsePsTableOutput and the Adb methods that build adb command lines     *)
(* and combine the results of the external process runner.                 *)
(*                                                                         *)
(* A JavaScript string is a sequence of one-character strings, so that     *)
(* split, trim and toLowerCase are computed and not assumed.               *)
(***************************************************************************)
EXTENDS Integers, Sequences, FiniteSets, TLC

VARIABLES
    pc,             \* position of the call being modelled
    output,         \* parsePsTableOutput: argument `output`
    desiredFields,  \* parsePsTableOutput: argument `desiredFields`
    colMapping,     \* parsePsTableOutput: column index -> field name
    rows,           \* parsePsTableOutput: the filtered data lines still to visit
    formattedData,  \* parsePsTableOutput: records pushed so far
    call,           \* Adb method call: method name and arguments
    args,           \* Adb method call: argument list handed to the adb binary
    spawned,        \* Adb method call: the commands started so far
    infoTable,      \* getDeviceInfo: the map being filled
    allProcesses,   \* getJavaProcesses: parsed ps records
    events,         \* what the external commands have delivered so far
    result          \* settled value of the call

vars == <<pc, output, desiredFields, colMapping, rows, formattedData,
          call, args, spawned, infoTable, allProcesses, events, result>>

parseVars == <<output, desiredFields, colMapping, rows, formattedData>>
adbVars == <<call, args, spawned, infoTable, allProcesses, events>>

----------------------------------------------------------------------------
(* Bounds of the explored inputs *)

MaxCols == 2
MaxLineLen == 5
MaxTextLen == 6
MaxChunkLen == 3
MaxLaterEvents == 1

----------------------------------------------------------------------------
(* JavaScript string primitives *)

\* characters matched by \s that occur in the explored inputs
IsSpace(c) == c \in {" ", "\t", "\n", "\r"}

UpperChars == <<"A","B","C","D","E","F","G","H","I","J","K","L","M",
                "N","O","P","Q","R","S","T","U","V","W","X","Y","Z">>
LowerChars == <<"a","b","c","d","e","f","g","h","i","j","k","l","m",
                "n","o","p","q","r","s","t","u","v","w","x","y","z">>

\* String.prototype.toLowerCase, one character
LowerChar(c) ==
    IF \E k \in 1..Len(UpperChars) : UpperChars[k] = c
    THEN LowerChars[CHOOSE k \in 1..Len(UpperChars) : UpperChars[k] = c]
    ELSE c

\* String.prototype.toLowerCase
toLowerCase(s) == [k \in 1..Len(s) |-> LowerChar(s[k])]

RECURSIVE TrimStart(_)
TrimStart(s) == IF s # <<>> /\ IsSpace(Head(s)) THEN TrimStart(Tail(s)) ELSE s

RECURSIVE TrimEnd(_)
TrimEnd(s) ==
    IF s # <<>> /\ IsSpace(s[Len(s)]) THEN TrimEnd(SubSeq(s, 1, Len(s) - 1)) ELSE s

\* String.prototype.trim
trim(s) == TrimEnd(TrimStart(s))

\* s.split(/\s+/): a maximal run of whitespace is one separator; a string that
\* starts or ends with whitespace yields an empty first or last token
RECURSIVE SplitWsFrom(_, _, _, _)
SplitWsFrom(s, i, cur, acc) ==
    IF i > Len(s) THEN Append(acc, cur)
    ELSE IF IsSpace(s[i])
         THEN IF i > 1 /\ IsSpace(s[i - 1])
              THEN SplitWsFrom(s, i + 1, cur, acc)
              ELSE SplitWsFrom(s, i + 1, <<>>, Append(acc, cur))
         ELSE SplitWsFrom(s, i + 1, Append(cur, s[i]), acc)

splitWs(s) == SplitWsFrom(s, 1, <<>>, <<>>)

\* s.split(/\n/): every newline is a separator
RECURSIVE SplitLinesFrom(_, _, _, _)
SplitLinesFrom(s, i, cur, acc) ==
    IF i > Len(s) THEN Append(acc, cur)
    ELSE IF s[i] = "\n"
         THEN SplitLinesFrom(s, i + 1, <<>>, Append(acc, cur))
         ELSE SplitLinesFrom(s, i + 1, Append(cur, s[i]), acc)

splitLines(s) == SplitLinesFrom(s, 1, <<>>, <<>>)

\* a plain object {} with string keys, as a function on its own keys
EmptyObj == [k \in {} |-> <<>>]

PROTO == <<"_","_","p","r","o","t","o","_","_">>

\* obj[key] = value on a plain object; assigning a string to __proto__ is
\* ignored by the inherited setter and creates no own property
SetProp(obj, key, value) ==
    IF key = PROTO THEN obj
    ELSE [k \in DOMAIN obj \cup {key} |-> IF k = key THEN value ELSE obj[k]]

----------------------------------------------------------------------------
(* parsePsTableOutput *)

STATUS == <<"S">>

\* variant: every header column is kept, whatever the desired fields are
HeaderMappingAllColumns(header, desired) ==
    LET cols == splitWs(header)
    IN [i \in 0..(Len(cols) - 1) |-> toLowerCase(cols[i + 1])]

\* variant: the header token is compared as it is written
HeaderMappingCaseSensitive(header, desired) ==
    LET cols == splitWs(header)
    IN [i \in {j \in 0..(Len(cols) - 1) : cols[j + 1] \in desired} |-> cols[i + 1]]

\* the header loop: colMapping[i] = lowercase header token, for the columns
\* whose lowercase name is included in desiredFields (indexes from 0)
HeaderMapping(header, desired) ==
    LET cols == splitWs(header)
    IN [i \in {j \in 0..(Len(cols) - 1) : toLowerCase(cols[j + 1]) \in desired}
          |-> toLowerCase(cols[i + 1])]

\* the body of the for loop over rowData, from index i (from 0) on
RECURSIVE RowLoop(_, _, _, _)
RowLoop(rowData, mapping, i, rowObj) ==
    IF i >= Len(rowData) THEN rowObj
    ELSE LET effectiveColumn == i
             ii == IF rowData[i + 1] = STATUS /\ i < Len(rowData) - 1
                   THEN i + 1 ELSE i
             obj == IF effectiveColumn \in DOMAIN mapping
                    THEN SetProp(rowObj, mapping[effectiveColumn], rowData[ii + 1])
                    ELSE rowObj
         IN RowLoop(rowData, mapping, ii + 1, obj)

\* the forEach callback: the record of one data line
RowRecord(row, mapping) == RowLoop(splitWs(row), mapping, 0, EmptyObj)

\* variant: blank lines are not filtered out
DataRowsUnfiltered(text) ==
    LET lines == splitLines(text)
    IN SubSeq(lines, 2, Len(lines))

\* lines.slice(1).filter(row => row.trim() !== '')
DataRows(text) ==
    LET lines == splitLines(text)
    IN SelectSeq(SubSeq(lines, 2, Len(lines)), LAMBDA row : trim(row) # <<>>)

\* the whole function, as its callers use it
parsePsTableOutput(text, desired) ==
    LET lines == splitLines(text)
        mapping == HeaderMapping(lines[1], desired)
        data == DataRows(text)
    IN [k \in 1..Len(data) |-> RowRecord(data[k], mapping)]

----------------------------------------------------------------------------
(* Explored inputs of parsePsTableOutput *)

SP == <<" ">>
NL == <<"\n">>

\* every sequence over `alphabet` of length at most n
AllSeqs(alphabet, n) == UNION {[1..k -> alphabet] : k \in 0..n}

\* tokens.join(sep)
RECURSIVE JoinWith(_, _)
JoinWith(tokens, sep) ==
    IF tokens = <<>> THEN <<>>
    ELSE IF Len(tokens) = 1 THEN tokens[1]
    ELSE tokens[1] \o sep \o JoinWith(Tail(tokens), sep)

HeaderTokens == {<<"A">>, <<"b">>, PROTO}
LineAlphabet == {"x", "S", " "}
TextAlphabet == {"A", "x", " ", "\n"}

\* a header of at most MaxCols columns followed by one data line
RowInputs ==
    {JoinWith(h, SP) \o NL \o line :
        h \in AllSeqs(HeaderTokens, MaxCols), line \in AllSeqs(LineAlphabet, MaxLineLen)}

\* every short text, for the treatment of lines
TextInputs == AllSeqs(TextAlphabet, MaxTextLen)

DesiredSets ==
    {{}, {<<"a">>}, {<<"a">>, <<"b">>, <<"c">>}, {<<"A">>, <<"b">>}, {PROTO, <<"a">>}}

Pending == [status |-> "pending"]

ParseInit ==
    /\ pc = "parse_header"
    /\ output \in RowInputs \cup TextInputs
    /\ desiredFields \in DesiredSets
    /\ colMapping = <<>>
    /\ rows = <<>>
    /\ formattedData = <<>>
    /\ call = [op |-> "parsePsTableOutput"]
    /\ args = <<>>
    /\ spawned = <<>>
    /\ infoTable = <<>>
    /\ allProcesses = <<>>
    /\ events = <<>>
    /\ result = Pending

\* lines 192-205: split the text, resolve the header, select the data rows
ParseHeader ==
    /\ pc = "parse_header"
    /\ colMapping' = HeaderMapping(splitLines(output)[1], desiredFields)
    /\ rows' = DataRows(output)
    /\ pc' = "parse_rows"
    /\ UNCHANGED <<output, desiredFields, formattedData, adbVars, result>>

\* lines 206-223: one call of the forEach callback
ParseRow ==
    /\ pc = "parse_rows"
    /\ rows # <<>>
    /\ formattedData' = Append(formattedData, RowRecord(Head(rows), colMapping))
    /\ rows' = Tail(rows)
    /\ UNCHANGED <<pc, output, desiredFields, colMapping, adbVars, result>>

\* line 225
ParseReturn ==
    /\ pc = "parse_rows"
    /\ rows = <<>>
    /\ result' = [status |-> "returned", value |-> formattedData]
    /\ pc' = "parse_done"
    /\ UNCHANGED <<parseVars, adbVars>>

ParseNext == ParseHeader \/ ParseRow \/ ParseReturn

SpecParse == ParseInit /\ [][ParseNext]_vars

----------------------------------------------------------------------------
(* Reading the input text directly, for the statements about the parser *)

LineStarts(s) == {1} \cup {k + 1 : k \in {i \in 1..Len(s) : s[i] = "\n"}}

LineFrom(s, st) ==
    LET ends == {e \in st..Len(s) : s[e] = "\n"}
        en == IF ends = {} THEN Len(s) + 1
              ELSE CHOOSE e \in ends : \A f \in ends : e <= f
    IN SubSeq(s, st, en - 1)

IsBlank(line) == \A i \in 1..Len(line) : IsSpace(line[i])

\* where the non-blank lines after the header line start
DataLineStarts(s) == {st \in LineStarts(s) \ {1} : ~IsBlank(LineFrom(s, st))}

NthDataLine(s, n) ==
    LineFrom(s, CHOOSE st \in DataLineStarts(s) :
                    Cardinality({u \in DataLineStarts(s) : u < st}) = n - 1)

HeaderCols == splitWs(LineFrom(output, 1))

\* header columns (from 1) whose lowercase name is a desired field
Recognised == {j \in 1..Len(HeaderCols) : toLowerCase(HeaderCols[j]) \in desiredFields}

ColName(j) == toLowerCase(HeaderCols[j])

Tokens(n) == splitWs(NthDataLine(output, n))

Returned == pc = "parse_done"

Records == result.value

DesiredLowercase == \A d \in desiredFields : d = toLowerCase(d)

NoStatusToken(t) == \A i \in 1..Len(t) : t[i] # STATUS

DistinctColumns ==
    /\ \A j \in 1..Len(HeaderCols) : ColName(j) # PROTO
    /\ \A j, k \in 1..Len(HeaderCols) : ColName(j) = ColName(k) => j = k

\* C1 as stated: for a data line without an "S" token and lowercase desired
\* fields, the record is exactly { lowercase(header[j]) -> token[j] } over the
\* desired columns j that the line has a token for.
C1_RecordIsExactlyTheColumnMapping ==
    Returned =>
        \A n \in 1..Len(Records) :
            LET t == Tokens(n)
                rec == Records[n]
                J == {j \in Recognised : j <= Len(t)}
            IN (DesiredLowercase /\ NoStatusToken(t)) =>
                   /\ DOMAIN rec = {ColName(j) : j \in J}
                   /\ \A j \in J : rec[ColName(j)] = t[j]

\* C1 amended: for a data line without an "S" token and lowercase desired
\* fields, the keys of the record are the names lowercase(header[j]) other than
\* "__proto__" of the desired columns j the line has a token for, and each key
\* holds the token of the last such column with that name.
C1_RecordIsLastColumnMapping ==
    Returned =>
        \A n \in 1..Len(Records) :
            LET t == Tokens(n)
                rec == Records[n]
                J == {j \in Recognised : j <= Len(t)}
            IN (DesiredLowercase /\ NoStatusToken(t)) =>
                   /\ DOMAIN rec = {ColName(j) : j \in J} \ {PROTO}
                   /\ \A j \in J :
                          (/\ ColName(j) # PROTO
                           /\ \A k \in J : ColName(k) = ColName(j) => k <= j)
                          => rec[ColName(j)] = t[j]

\* a line shorter than the header, with two desired columns in the header: the
\* record has the field of the first column only
C1_Witness ==
    /\ Returned
    /\ DesiredLowercase
    /\ DistinctColumns
    /\ Cardinality(Recognised) = 2
    /\ Len(HeaderCols) = 2
    /\ \E d \in desiredFields : \A j \in 1..Len(HeaderCols) : ColName(j) # d
    /\ Len(Records) = 1
    /\ Len(Tokens(1)) = 1
    /\ NoStatusToken(Tokens(1))
    /\ DOMAIN Records[1] = {ColName(1)}

\* positions (from 1) of the "S" tokens that are not the last token
SkippablePositions(t) == {i \in 1..(Len(t) - 1) : t[i] = STATUS}

Values(rec) == {rec[k] : k \in DOMAIN rec}

\* C2 as stated, for headers of distinct column names: an "S" token that is
\* not the last token of its line is never stored as a field value (a stored
\* "S" can only be the last token), and the field of the column at its
\* position holds the token that follows it.
C2_StatusTokenNeverStored ==
    Returned =>
        \A n \in 1..Len(Records) :
            LET t == Tokens(n)
                rec == Records[n]
            IN DistinctColumns =>
                   /\ STATUS \in Values(rec) => t[Len(t)] = STATUS
                   /\ \A i \in SkippablePositions(t) :
                          i \in Recognised =>
                              /\ ColName(i) \in DOMAIN rec
                              /\ rec[ColName(i)] = t[i + 1]

\* C3 as stated, for headers of distinct column names: with n header columns
\* and n+1 tokens whose only "S" is at the non-last position k, every desired
\* column before k holds its own token and every desired column from k on
\* holds the next token.
C3_SkipConsumesNoColumn ==
    Returned =>
        \A n \in 1..Len(Records) :
            LET t == Tokens(n)
                rec == Records[n]
            IN (/\ DistinctColumns
                /\ Len(t) = Len(HeaderCols) + 1
                /\ Cardinality({i \in 1..Len(t) : t[i] = STATUS}) = 1
                /\ SkippablePositions(t) # {})
               => \A j \in Recognised :
                      /\ ColName(j) \in DOMAIN rec
                      /\ rec[ColName(j)] =
                             IF \A k \in SkippablePositions(t) : j < k
                             THEN t[j] ELSE t[j + 1]

\* C4: the records are, in order, those of the non-blank lines after the
\* first line; blank lines and the header line give no record.
C4_OneRecordPerNonBlankDataLine ==
    Returned =>
        /\ Len(Records) = Cardinality(DataLineStarts(output))
        /\ \A n \in 1..Len(Records) :
               Records[n] = RowRecord(NthDataLine(output, n),
                                      HeaderMapping(LineFrom(output, 1), desiredFields))

\* two different records around a blank line, in the order of their lines
C4_Witness ==
    /\ Returned
    /\ Len(Records) = 2
    /\ Records[1] # Records[2]
    /\ DOMAIN Records[1] # {}
    /\ \E st \in LineStarts(output) \ {1} :
           /\ IsBlank(LineFrom(output, st))
           /\ \E u, v \in DataLineStarts(output) : u < st /\ st < v

EqualIgnoringCase(a, b) == toLowerCase(a) = toLowerCase(b)

\* C5 as stated, leaving "__proto__" aside: a header token and a desired field
\* equal up to letter case, in whatever case the desired field is given, make
\* the column recognised and give the record of a line with a token in that
\* column the key lowercase(h).
C5_MatchIgnoresCaseOnBothSides ==
    Returned =>
        \A j \in 1..Len(HeaderCols) :
            \A d \in desiredFields :
                (EqualIgnoringCase(HeaderCols[j], d) /\ ColName(j) # PROTO) =>
                    /\ (j - 1) \in DOMAIN colMapping
                    /\ \A n \in 1..Len(Records) :
                           (NoStatusToken(Tokens(n)) /\ j <= Len(Tokens(n)))
                               => ColName(j) \in DOMAIN Records[n]

\* C5 amended: only the header token is lowercased. A column is recognised
\* exactly when lowercase(h) is itself one of the desired fields, so a desired
\* field given in lowercase matches h in any case, a desired field with an
\* uppercase letter matches nothing, and a recognised column other than
\* "__proto__" gives the key lowercase(h) to a line with a token in it.
C5_MatchLowercasesHeaderOnly ==
    Returned =>
        \A j \in 1..Len(HeaderCols) :
            /\ (j - 1) \in DOMAIN colMapping <=> ColName(j) \in desiredFields
            /\ \A d \in desiredFields :
                   (EqualIgnoringCase(HeaderCols[j], d) /\ d = toLowerCase(d)) =>
                       /\ (j - 1) \in DOMAIN colMapping
                       /\ colMapping[j - 1] = d
                       /\ \A n \in 1..Len(Records) :
                              (/\ NoStatusToken(Tokens(n))
                               /\ j <= Len(Tokens(n))
                               /\ d # PROTO)
                                  => d \in DOMAIN Records[n]
            /\ \A d \in desiredFields :
                   (d # toLowerCase(d) /\ (j - 1) \in DOMAIN colMapping)
                       => colMapping[j - 1] # d

\* an uppercase header token matched by a lowercase desired field
C5_Witness ==
    /\ Returned
    /\ \E j \in 1..Len(HeaderCols) :
           /\ HeaderCols[j] # ColName(j)
           /\ ColName(j) \in desiredFields
           /\ Len(Records) = 1
           /\ NoStatusToken(Tokens(1))
           /\ j <= Len(Tokens(1))
           /\ ColName(j) \in DOMAIN Records[1]
           /\ Records[1][ColName(j)] = Tokens(1)[j]

----------------------------------------------------------------------------
(* The Adb methods *)

\* string literals of Adb.js
SHELL == <<"s","h","e","l","l">>
AM == <<"a","m">>
START == <<"s","t","a","r","t">>
FLAG_W == <<"-","W">>
FLAG_N == <<"-","n">>
FLAG_A == <<"-","a">>
FLAG_BIG_N == <<"-","N">>
FLAG_D == <<"-","D">>
FLAG_S == <<"-","s">>
DUMPSYS == <<"d","u","m","p","s","y","s">>
PACKAGE == <<"p","a","c","k","a","g","e">>
PS == <<"p","s">>
JDWP == <<"j","d","w","p">>
USER == <<"u","s","e","r">>
PID == <<"p","i","d">>
NAME == <<"n","a","m","e">>
SLASH == <<"/">>

\* JavaScript values that may be a string or null
JsNull == [type |-> "null", value |-> <<>>]
JsUndefined == [type |-> "undefined", value |-> <<>>]
JsString(str) == [type |-> "string", value |-> str]

Resolved(v) == [status |-> "resolved", value |-> v]
Rejected(e) == [status |-> "rejected", value |-> e]

\* a Map, as a function on its keys: Map.prototype.set
MapSet(m, key, value) ==
    [k \in DOMAIN m \cup {key} |-> IF k = key THEN value ELSE m[k]]

\* String.prototype.includes
includes(str, sub) ==
    \E i \in 0..(Len(str) - Len(sub)) : SubSeq(str, i + 1, i + Len(sub)) = sub

\* getAndroidProp: the trimmed output of `shell getprop <key>`
getAndroidProp(stdout) == trim(stdout)

\* `${packageName}/${activity}`
Component(packageName, activity) == packageName \o SLASH \o activity

\* launchActivity, lines 122-129
LaunchArgs(packageName, activity, debug, action) ==
    LET a0 == <<SHELL, AM, START, FLAG_W, FLAG_N>>
        a1 == IF action.type \notin {"null", "undefined"}
              THEN a0 \o <<FLAG_A, action.value>> ELSE a0
        a2 == IF debug THEN a1 \o <<FLAG_BIG_N, FLAG_D>> ELSE a1
    IN Append(a2, Component(packageName, activity))

\* variant: the device selector is always passed
ActivityExistsCommandAlwaysSelects(device) ==
    <<FLAG_S, device>> \o <<SHELL, DUMPSYS, PACKAGE>>

\* activityExists, lines 139-140
ActivityExistsCommand(device) ==
    LET deviceArg == IF device # <<>> THEN <<FLAG_S, device>> ELSE <<>>
    IN deviceArg \o <<SHELL, DUMPSYS, PACKAGE>>

\* getJavaProcesses, line 154
JdwpArgs(device) ==
    (IF device # <<>> THEN <<FLAG_S, device>> ELSE <<>>) \o <<JDWP>>

\* getJavaProcesses, lines 162-168: the pids of the event taken from the stream
JdwpPids(out) ==
    IF out.kind = "stdout"
    THEN {trim(t) : t \in {splitWs(out.data)[k] : k \in 1..Len(splitWs(out.data))}}
    ELSE {}

\* getJavaProcesses, line 170; a record without pid has row.pid undefined
FilterJdwp(processes, jdwpPids) ==
    SelectSeq(processes, LAMBDA row : PID \in DOMAIN row /\ row[PID] \in jdwpPids)

Emitted(src, kind, data) == [src |-> src, kind |-> kind, data |-> data]

----------------------------------------------------------------------------
(* Explored calls and answers of the external commands *)

Devices == {<<>>, <<"d">>}
PackageNames == {<<"p">>, <<"q">>}
Activities == {<<"A">>, <<"M">>}
LaunchActions == {JsNull, JsUndefined, JsString(<<"V">>)}

Calls ==
    {[op |-> "launchActivity", device |-> d, packageName |-> p, activity |-> a,
      debug |-> g, action |-> x] :
        d \in Devices, p \in PackageNames, a \in Activities,
        g \in BOOLEAN, x \in LaunchActions}
    \cup {[op |-> "activityExists", device |-> d, packageName |-> p, activity |-> a] :
            d \in Devices, p \in PackageNames, a \in Activities}
    \cup {[op |-> "getDeviceInfo", device |-> d] : d \in Devices}
    \cup {[op |-> "getJavaProcesses", device |-> d] : d \in Devices}

CommandOutputs == {<<"o", "k">>, <<>>}
DumpsysOutputs ==
    {<<>>, <<"p", "q", "/", "A">>}
    \cup {<<"x">> \o Component(p, a) \o <<"\n">> : p \in PackageNames, a \in Activities}

NoEntries == [k \in {} |-> JsNull]
BaseInfoTables ==
    {NoEntries, [k \in {"name"} |-> JsString(<<"n">>)], [k \in {"brand"} |-> JsString(<<"o">>)]}
PropOutputs == {<<"8", "\n">>, <<" ", "g">>}

PsOutputs ==
    {JoinWith(<<JoinWith(<<USER, PID, NAME>>, SP),
                JoinWith(<<<<"u">>, <<"1">>, STATUS, <<"a">>>>, SP),
                JoinWith(<<<<"u">>, <<"1", "1">>, STATUS, <<"b">>>>, SP),
                <<>>>>, NL),
     JoinWith(<<JoinWith(<<PID, NAME>>, SP),
                JoinWith(<<<<"1", "1">>, <<"a">>>>, SP),
                JoinWith(<<<<"1">>, <<"b">>>>, SP),
                JoinWith(<<<<"1">>, <<"c">>>>, SP)>>, NL),
     JoinWith(<<JoinWith(<<USER, NAME>>, SP),
                JoinWith(<<<<"u">>, <<"a">>>>, SP)>>, NL)}

Chunks == AllSeqs({"1", "\n"}, MaxChunkLen)
JdwpEvents ==
    {Emitted("jdwp", "stdout", c) : c \in Chunks}
    \cup {Emitted("jdwp", "stderr", <<"1">>),
          Emitted("jdwp", "exit", <<>>),
          Emitted("jdwp", "error", <<>>)}

Init ==
    /\ pc = "call"
    /\ call \in Calls
    /\ args = <<>>
    /\ spawned = <<>>
    /\ infoTable = NoEntries
    /\ allProcesses = <<>>
    /\ events = <<>>
    /\ result = Pending
    /\ output = <<>>
    /\ desiredFields = {}
    /\ colMapping = <<>>
    /\ rows = <<>>
    /\ formattedData = <<>>

Spawn(fn, a) == spawned' = Append(spawned, [fn |-> fn, args |-> a])
Deliver(e) == events' = Append(events, e)

\* launchActivity, lines 122-130, up to the command being run
CallLaunchActivity ==
    /\ pc = "call"
    /\ call.op = "launchActivity"
    /\ args' = LaunchArgs(call.packageName, call.activity, call.debug, call.action)
    /\ Spawn("runShortAdbCommand", args')
    /\ pc' = "launching"
    /\ UNCHANGED <<parseVars, call, infoTable, allProcesses, events, result>>

\* launchActivity: the promise of the command settles and is returned as it is
LaunchActivitySettles ==
    /\ pc = "launching"
    /\ \/ \E stdout \in CommandOutputs :
              /\ Deliver(Emitted("am", "resolved", stdout))
              /\ result' = Resolved(stdout)
       \/ /\ Deliver(Emitted("am", "rejected", <<>>))
          /\ result' = Rejected(Emitted("am", "rejected", <<>>))
    /\ pc' = "done"
    /\ UNCHANGED <<parseVars, call, args, spawned, infoTable, allProcesses>>

\* activityExists, lines 138-141
CallActivityExists ==
    /\ pc = "call"
    /\ call.op = "activityExists"
    /\ args' = ActivityExistsCommand(call.device)
    /\ Spawn("runCommand", args')
    /\ pc' = "dumpsys"
    /\ UNCHANGED <<parseVars, call, infoTable, allProcesses, events, result>>

\* activityExists, lines 142-143
ActivityExistsSettles ==
    /\ pc = "dumpsys"
    /\ \/ \E stdout \in DumpsysOutputs :
              /\ Deliver(Emitted("dumpsys", "resolved", stdout))
              /\ result' = Resolved(includes(stdout,
                                             Component(call.packageName, call.activity)))
       \/ /\ Deliver(Emitted("dumpsys", "rejected", <<>>))
          /\ result' = Rejected(Emitted("dumpsys", "rejected", <<>>))
    /\ pc' = "done"
    /\ UNCHANGED <<parseVars, call, args, spawned, infoTable, allProcesses>>

\* getDeviceInfo, line 69
unknownCB == JsNull

\* getDeviceInfo, line 68, up to the await of the common device info
CallGetDeviceInfo ==
    /\ pc = "call"
    /\ call.op = "getDeviceInfo"
    /\ pc' = "common"
    /\ UNCHANGED <<parseVars, adbVars, result>>

\* line 68: getCommonDeviceInfo resolves with the base table
CommonDeviceInfoResolves ==
    /\ pc = "common"
    /\ \E base \in BaseInfoTables :
           /\ infoTable' = base
           /\ Deliver(Emitted("getCommonDeviceInfo", "resolved", base))
    /\ pc' = "android_version"
    /\ UNCHANGED <<parseVars, call, args, spawned, allProcesses, result>>

\* line 68: getCommonDeviceInfo rejects, and the await rethrows
CommonDeviceInfoRejects ==
    /\ pc = "common"
    /\ Deliver(Emitted("getCommonDeviceInfo", "rejected", <<>>))
    /\ result' = Rejected(Emitted("getCommonDeviceInfo", "rejected", <<>>))
    /\ pc' = "done"
    /\ UNCHANGED <<parseVars, call, args, spawned, infoTable, allProcesses>>

\* variant: a failed lookup sets nothing
PropLookupOmits(key, getter) ==
    \/ \E stdout \in PropOutputs :
           /\ Deliver(Emitted(getter, "resolved", stdout))
           /\ infoTable' = MapSet(infoTable, key, JsString(getAndroidProp(stdout)))
    \/ /\ Deliver(Emitted(getter, "rejected", <<>>))
       /\ infoTable' = infoTable

\* infoTable.set(key, await this.getX(device).catch(unknownCB))
PropLookup(key, getter) ==
    \/ \E stdout \in PropOutputs :
           /\ Deliver(Emitted(getter, "resolved", stdout))
           /\ infoTable' = MapSet(infoTable, key, JsString(getAndroidProp(stdout)))
    \/ /\ Deliver(Emitted(getter, "rejected", <<>>))
       /\ infoTable' = MapSet(infoTable, key, unknownCB)

\* lines 70-73
SetAndroidVersion ==
    /\ pc = "android_version"
    /\ PropLookup("android_version", "getOSVersion")
    /\ pc' = "manufacturer"
    /\ UNCHANGED <<parseVars, call, args, spawned, allProcesses, result>>

\* lines 74-77
SetManufacturer ==
    /\ pc = "manufacturer"
    /\ PropLookup("manufacturer", "getManufacturer")
    /\ pc' = "brand"
    /\ UNCHANGED <<parseVars, call, args, spawned, allProcesses, result>>

\* lines 78-79
SetBrand ==
    /\ pc = "brand"
    /\ PropLookup("brand", "getBrand")
    /\ result' = Resolved(infoTable')
    /\ pc' = "done"
    /\ UNCHANGED <<parseVars, call, args, spawned, allProcesses>>

\* getJavaProcesses, line 150
PsFields == {USER, PID, NAME}

\* getJavaProcesses, line 147, up to the await of `shell ps`
CallGetJavaProcesses ==
    /\ pc = "call"
    /\ call.op = "getJavaProcesses"
    /\ args' = <<SHELL, PS>>
    /\ Spawn("runShortAdbCommand", args')
    /\ pc' = "ps"
    /\ UNCHANGED <<parseVars, call, infoTable, allProcesses, events, result>>

\* lines 148-158: ps succeeded, its table is parsed and the jdwp scan started
PsResolves ==
    /\ pc = "ps"
    /\ \E stdout \in PsOutputs :
           /\ Deliver(Emitted("ps", "resolved", stdout))
           /\ allProcesses' = parsePsTableOutput(trim(stdout), PsFields)
    /\ args' = JdwpArgs(call.device)
    /\ Spawn("observeProcessRaw", args')
    /\ pc' = "jdwp"
    /\ UNCHANGED <<parseVars, call, infoTable, result>>

\* line 147: ps failed, and the await rethrows
PsRejects ==
    /\ pc = "ps"
    /\ Deliver(Emitted("ps", "rejected", <<>>))
    /\ result' = Rejected(Emitted("ps", "rejected", <<>>))
    /\ pc' = "done"
    /\ UNCHANGED <<parseVars, call, args, spawned, infoTable, allProcesses>>

\* lines 160-172: take(1) takes the first event, the map filters the table
JdwpFirstEvent ==
    /\ pc = "jdwp"
    /\ \E e \in JdwpEvents :
           /\ Deliver(e)
           /\ result' = Resolved(FilterJdwp(allProcesses, JdwpPids(e)))
    /\ pc' = "taken"
    /\ UNCHANGED <<parseVars, call, args, spawned, infoTable, allProcesses>>

\* variant: without the catch the failure of the stream rejects the call
JdwpFailsPropagates ==
    /\ pc = "jdwp"
    /\ Deliver(Emitted("jdwp", "thrown", <<>>))
    /\ result' = Rejected(Emitted("jdwp", "thrown", <<>>))
    /\ pc' = "done"
    /\ UNCHANGED <<parseVars, call, args, spawned, infoTable, allProcesses>>

\* lines 159-172: the stream fails before any event; the catch replaces the
\* failure by the one event {kind: 'error', error}
JdwpFails ==
    /\ pc = "jdwp"
    /\ Deliver(Emitted("jdwp", "thrown", <<>>))
    /\ result' = Resolved(FilterJdwp(allProcesses, JdwpPids([kind |-> "error", error |-> "thrown"])))
    /\ pc' = "done"
    /\ UNCHANGED <<parseVars, call, args, spawned, infoTable, allProcesses>>

LaterEvents == Len(SelectSeq(events, LAMBDA e : e.src = "jdwp")) - 1

\* variant: without take(1) a later event replaces the result
JdwpLaterEventCounts ==
    /\ pc = "taken"
    /\ LaterEvents < MaxLaterEvents
    /\ \E e \in JdwpEvents :
           /\ Deliver(e)
           /\ result' = Resolved(FilterJdwp(allProcesses, JdwpPids(e)))
    /\ UNCHANGED <<pc, parseVars, call, args, spawned, infoTable, allProcesses>>

\* line 160: what the process emits after take(1) has completed reaches no one
JdwpLaterEvent ==
    /\ pc = "taken"
    /\ LaterEvents < MaxLaterEvents
    /\ \E e \in JdwpEvents : Deliver(e)
    /\ UNCHANGED <<pc, parseVars, call, args, spawned, infoTable, allProcesses, result>>

Next ==
    \/ CallLaunchActivity
    \/ LaunchActivitySettles
    \/ CallActivityExists
    \/ ActivityExistsSettles
    \/ CallGetDeviceInfo
    \/ CommonDeviceInfoResolves
    \/ CommonDeviceInfoRejects
    \/ SetAndroidVersion
    \/ SetManufacturer
    \/ SetBrand
    \/ CallGetJavaProcesses
    \/ PsResolves
    \/ PsRejects
    \/ JdwpFirstEvent
    \/ JdwpFails
    \/ JdwpLaterEvent

Spec == Init /\ [][Next]_vars

----------------------------------------------------------------------------
(* Statements about the Adb methods *)

InfoKeys == <<"android_version", "manufacturer", "brand">>

CommonInfoResolved ==
    /\ call.op = "getDeviceInfo"
    /\ events # <<>>
    /\ events[1].kind = "resolved"

\* C6: once the common device info has resolved, getDeviceInfo never rejects,
\* and it resolves with a map that has the three keys: null for a lookup that
\* failed, the value the lookup returned for one that succeeded.
C6_DeviceInfoResolvesWithAllThreeKeys ==
    CommonInfoResolved =>
        /\ result.status # "rejected"
        /\ pc = "done" =>
               /\ result.status = "resolved"
               /\ \A i \in 1..3 :
                      /\ InfoKeys[i] \in DOMAIN result.value
                      /\ result.value[InfoKeys[i]] =
                             IF events[i + 1].kind = "rejected"
                             THEN JsNull
                             ELSE JsString(trim(events[i + 1].data))

\* the brand lookup fails over a base table that already had a brand, and the
\* OS version lookup succeeds
C6_Witness ==
    /\ CommonInfoResolved
    /\ pc = "done"
    /\ "brand" \in DOMAIN events[1].data
    /\ events[2].kind = "resolved"
    /\ events[3].kind = "rejected"
    /\ events[4].kind = "rejected"
    /\ result.value["brand"] = JsNull
    /\ result.value["android_version"] = JsString(<<"8">>)

\* C7: when ps succeeded and the jdwp stream fails before any event, the call
\* resolves with the empty list; when ps fails, the call rejects with that
\* failure and the jdwp scan is never started.
C7_JdwpFailureIsEmptyAndPsFailurePropagates ==
    call.op = "getJavaProcesses" =>
        /\ (Len(events) >= 2 /\ events[1].kind = "resolved" /\ events[2].kind = "thrown")
               => (result = Resolved(<<>>) /\ pc = "done")
        /\ (events # <<>> /\ events[1].kind = "rejected")
               => /\ result = Rejected(events[1])
                  /\ pc = "done"
                  /\ \A i \in 1..Len(spawned) : spawned[i].fn # "observeProcessRaw"

\* ps listed processes and the jdwp stream then failed at once
C7_Witness ==
    /\ call.op = "getJavaProcesses"
    /\ Len(events) = 2
    /\ events[1].kind = "resolved"
    /\ Len(allProcesses) >= 2
    /\ events[2].kind = "thrown"
    /\ result = Resolved(<<>>)

\* C8: the arguments given to the adb binary by activityExists and by the
\* jdwp scan are the subcommand alone for the empty device, and the
\* subcommand after exactly "-s", device otherwise.
C8_DeviceSelectorOnlyForNamedDevice ==
    \A i \in 1..Len(spawned) :
        spawned[i].fn \in {"runCommand", "observeProcessRaw"} =>
            LET a == spawned[i].args
                sub == IF spawned[i].fn = "runCommand"
                       THEN <<SHELL, DUMPSYS, PACKAGE>> ELSE <<JDWP>>
            IN IF call.device = <<>>
               THEN a = sub /\ \A k \in 1..Len(a) : a[k] # FLAG_S
               ELSE /\ Len(a) = Len(sub) + 2
                    /\ a[1] = FLAG_S
                    /\ a[2] = call.device
                    /\ SubSeq(a, 3, Len(a)) = sub

\* activityExists for the empty device has run dumpsys without a selector
C8_Witness ==
    /\ call.op = "activityExists"
    /\ call.device = <<>>
    /\ Len(spawned) = 1
    /\ spawned[1] = [fn |-> "runCommand", args |-> <<SHELL, DUMPSYS, PACKAGE>>]

\* the ps records whose pid is one of the whitespace-separated tokens of chunk
RowsWithPidIn(chunk) ==
    SelectSeq(allProcesses,
              LAMBDA row : /\ PID \in DOMAIN row
                           /\ \E k \in 1..Len(splitWs(chunk)) : splitWs(chunk)[k] = row[PID])

\* C9: when ps succeeded, the result is fixed by the first event of the jdwp
\* stream, whatever follows: the ps records, in ps order, whose pid is a token
\* of a first stdout chunk, and the empty list for any other first event.
C9_OnlyFirstJdwpEventCounts ==
    (/\ call.op = "getJavaProcesses"
     /\ Len(events) >= 2
     /\ events[2].kind \in {"stdout", "stderr", "exit", "error"})
    => result = Resolved(IF events[2].kind = "stdout"
                         THEN RowsWithPidIn(events[2].data)
                         ELSE <<>>)

\* a later stdout chunk names the pid of a process that the first chunk, which
\* selected another process, did not name
C9_Witness ==
    /\ call.op = "getJavaProcesses"
    /\ Len(events) = 3
    /\ events[2].kind = "stdout"
    /\ events[3].kind = "stdout"
    /\ Len(result.value) >= 1
    /\ Len(RowsWithPidIn(events[3].data)) >= 1
    /\ \A k \in 1..Len(RowsWithPidIn(events[3].data)) :
           \A m \in 1..Len(result.value) : RowsWithPidIn(events[3].data)[k] # result.value[m]

\* C10 as stated: the arguments of launchActivity start with shell am start
\* -W -n, end with the component, and the token after -n is the component.
C10_ComponentFollowsFlagN ==
    (call.op = "launchActivity" /\ pc # "call") =>
        LET c == Component(call.packageName, call.activity)
        IN /\ Len(args) >= 6
           /\ SubSeq(args, 1, 5) = <<SHELL, AM, START, FLAG_W, FLAG_N>>
           /\ args[Len(args)] = c
           /\ args[6] = c

====
